---- MODULE Spec2Model ----
(***************************************************************************)
(* Model of the xrpl_sale Python SDK core:                                 *)
(*   - XRPLSaleClient._request (client.py), the HTTP request / retry /     *)
(*     error-mapping loop, with the lazily created session;                *)
(*   - XRPLSaleClient.close, __aenter__ and __aexit__, alone and among     *)
(*     concurrent _request calls;                                          *)
(*   - WebhooksService.verify_signature and parse_webhook (webhooks.py),   *)
(*     and the FastAPI, Flask and Django adapters built on them.           *)
(*                                                                         *)
(* Strings the code only passes around are TLA+ strings; strings whose     *)
(* characters matter (secrets, payloads, signatures) are sequences of      *)
(* code points.                                                            *)
(***************************************************************************)
EXTENDS Integers, Sequences, FiniteSets, TLC

VARIABLES
    config,      \* XRPLSaleClient.config (max_retries, retry_delay, webhook_secret)
    session,     \* XRPLSaleClient._session: "none" (None), "open" or "closed"
    pc,          \* position of the _request coroutine
    attempt,     \* loop variable `attempt` of _request
    trace,       \* history: attempts started and backoff sleeps, in order
    outcomes,    \* history: what each finished attempt met, and a cancellation
    result,      \* what the finished _request call handed to its caller
    wcall,       \* last webhook operation: its inputs and what it gave
    base_url,    \* XRPLSaleClient.base_url
    endpoint,    \* parameter `endpoint` of the running _request call
    url,         \* local `url` of the running _request call
    session_count, \* history: how many ClientSession objects were created
    entered,     \* the client is inside its `async with` block
    op,          \* history: the last close() call, its start state and what it raised
    tasks,       \* concurrent _request calls on the one client: each one's position
    closing      \* sessions whose close() has begun and not yet finished

vars == <<config, session, pc, attempt, trace, outcomes, result, wcall,
          base_url, endpoint, url, session_count, entered, op, tasks, closing>>

\* The variables of one operation family, for UNCHANGED.
call_vars == <<pc, attempt, trace, outcomes, result, endpoint, url>>
conc_vars == <<tasks, closing>>

(***************************************************************************)
(* Bounds of the model.                                                    *)
(***************************************************************************)
MaxRetries == 2      \* largest max_retries explored
MaxDelay == 2        \* largest retry_delay explored (in seconds)
MaxSessions == 2     \* most sessions one client creates
NumCalls == 2        \* concurrent _request calls explored

(***************************************************************************)
(* Exceptions (exceptions.py).                                             *)
(***************************************************************************)
NoStatus == 0        \* status_code=None of XRPLSaleError.__init__

\* A parsed JSON value: an object (with an optional "message" member and a set
\* of other keys), an array, or null (Python None).
JObject(message, keys) == [type |-> "object", message |-> message, keys |-> keys]
JArray == [type |-> "array", message |-> <<>>, keys |-> {}]
JNull == [type |-> "null", message |-> <<>>, keys |-> {}]
EmptyDict == JObject(<<>>, {})

Truthy(json) ==
    CASE json.type = "null" -> FALSE
      [] json.type = "array" -> FALSE      \* the array of the model is []
      [] OTHER -> json.message # <<>> \/ json.keys # {}

\* XRPLSaleError(message, status_code=None, details=None)
XRPLSaleError(message, status_code, details) ==
    [class |-> "XRPLSaleError", message |-> message, status_code |-> status_code,
     details |-> IF Truthy(details) THEN details ELSE EmptyDict]

\* AuthenticationError(message): status_code=401, no details
AuthenticationError(message) ==
    [class |-> "AuthenticationError", message |-> message, status_code |-> 401,
     details |-> EmptyDict]

\* An exception that is not of the SDK (raised by Python or a library).
ForeignError(class, message) ==
    [class |-> class, message |-> message, status_code |-> NoStatus,
     details |-> EmptyDict]

\* The classes derived from XRPLSaleError, XRPLSaleError included.
SDKErrorClasses ==
    {"XRPLSaleError", "ValidationError", "AuthenticationError", "AuthorizationError",
     "NotFoundError", "RateLimitError", "ServerError"}

IsSDKError(exc) == exc.class \in SDKErrorClasses

(***************************************************************************)
(* What a call hands to its caller.                                        *)
(***************************************************************************)
NoException == ForeignError("none", <<>>)
NoCall == [op |-> "none"]
Pending == [kind |-> "pending", value |-> JNull, exc |-> NoException]
Returned(value) == [kind |-> "return", value |-> value, exc |-> NoException]
Raised(exc) == [kind |-> "raise", value |-> JNull, exc |-> exc]

(***************************************************************************)
(* XRPLSaleConfig (client.py:26-35).  pydantic puts no constraint on       *)
(* max_retries and retry_delay, so a negative value is accepted.           *)
(***************************************************************************)
\* Optional[str]: None is the empty sequence, a string s the one-element <<s>>.
None == <<>>
Some(s) == <<s>>
DefaultMaxRetries == 3
DefaultRetryDelay == 1

XRPLSaleConfig(max_retries, retry_delay, webhook_secret) ==
    [max_retries |-> max_retries, retry_delay |-> retry_delay,
     webhook_secret |-> webhook_secret]

RequestConfigs ==
    {XRPLSaleConfig(n, d, None) : n \in -1..MaxRetries, d \in 0..MaxDelay}

(***************************************************************************)
(* URLs.  A URL is its origin (scheme and host) and the segments of its    *)
(* path; a reference is a path that starts with "/" (rooted) or not.       *)
(***************************************************************************)
Url(origin, path) == [origin |-> origin, path |-> path]
NoUrl == Url("none", <<>>)
Reference(rooted, path) == [rooted |-> rooted, path |-> path]
NoEndpoint == Reference(FALSE, <<>>)

\* models.py:12-15
Environment == {"production", "testnet"}
\* client.py:30, the default of XRPLSaleConfig.environment
DefaultEnvironment == "production"

\* client.py:72-79
GetBaseUrl(environment) ==
    IF environment = "production"
    THEN Url("https://xrpl.sale", <<"api">>)
    ELSE Url("https://testnet.xrpl.sale", <<"api">>)

\* urllib.parse.urljoin(base, ref) for a reference without scheme, host, query
\* or dot segments (RFC 3986, 5.2.2): a rooted path replaces the path of the
\* base; another path replaces its last segment; an empty reference keeps it.
UrlJoin(base, ref) ==
    IF ref.rooted
    THEN Url(base.origin, ref.path)
    ELSE IF ref.path = <<>>
         THEN base
         ELSE Url(base.origin, SubSeq(base.path, 1, Len(base.path) - 1) \o ref.path)

\* The paths the services and the client pass to _request: "/ping"
\* (client.py:192) and "/webhooks/wh_1" (webhooks.py:164).
Endpoints ==
    {Reference(TRUE, <<"ping">>), Reference(TRUE, <<"webhooks", "wh_1">>)}

(***************************************************************************)
(* The environment of one attempt: what self._session.request() and        *)
(* response.json() can meet.                                               *)
(***************************************************************************)
\* Failures without an HTTP response.  aiohttp raises ClientConnectorError (a
\* ClientError) when the connection is refused or the name does not resolve;
\* when ClientTimeout(total=...) of _ensure_session expires it raises
\* asyncio.TimeoutError, which is not a ClientError.
TransportFailures == {"connection_refused", "dns_failure", "timeout"}

Statuses == {200, 400, 401, 403, 404, 418, 429, 500}

\* The body of a response, as response.json() sees it.
Bodies ==
    {"object_message",      \* {"message": "Project not found"}
     "object_other",        \* {"ok": true}
     "array",               \* []
     "empty",               \* no body, Content-Type application/json
     "malformed",           \* text that is not JSON, Content-Type application/json
     "wrong_content_type"}  \* any body whose Content-Type is not JSON (or absent)

Failure(cause) == [kind |-> "transport", cause |-> cause, status |-> NoStatus, body |-> "none"]
Response(status, body) == [kind |-> "response", cause |-> "none", status |-> status, body |-> body]
\* The task running the call is cancelled while it awaits (`where` tells what).
Cancelled(where) == [kind |-> "cancelled", cause |-> where, status |-> NoStatus, body |-> "none"]

\* response.json() of aiohttp: checks the content type (ContentTypeError, a
\* ClientResponseError and so a ClientError), gives None for an empty body,
\* and otherwise json.loads (JSONDecodeError).
ResponseJson(body) ==
    CASE body = "wrong_content_type" ->
            [ok |-> FALSE, exc |-> "ContentTypeError", value |-> JNull]
      [] body = "malformed" ->
            [ok |-> FALSE, exc |-> "JSONDecodeError", value |-> JNull]
      [] body = "empty" ->
            [ok |-> TRUE, exc |-> "none", value |-> JNull]
      [] body = "array" ->
            [ok |-> TRUE, exc |-> "none", value |-> JArray]
      [] body = "object_message" ->
            [ok |-> TRUE, exc |-> "none", value |-> JObject(<<"Project not found">>, {})]
      [] OTHER ->
            [ok |-> TRUE, exc |-> "none", value |-> JObject(<<>>, {"ok"})]

\* The exception an attempt without a response ends with.
TransportException(cause) ==
    IF cause = "timeout" THEN "TimeoutError" ELSE "ClientConnectorError"

\* An `except BaseException`: a handler that catches whatever is raised.
IsBaseException(class) == TRUE

\* `except aiohttp.ClientError` (client.py:165): the classes it catches.
IsClientError(class) == class \in {"ClientConnectorError", "ContentTypeError"}

\* str(e) of the exception an attempt ended with.
Str(class) ==
    CASE class = "ClientConnectorError" -> "Cannot connect to host"
      [] class = "ContentTypeError" -> "Attempt to decode JSON with unexpected mimetype"
      [] class = "TimeoutError" -> ""
      [] class = "JSONDecodeError" -> "Expecting value"
      [] class = "AttributeError" -> "object has no attribute 'get'"
      [] class = "CancelledError" -> ""
      [] class = "RuntimeError" -> "Session is closed"
      [] OTHER -> class

(***************************************************************************)
(* XRPLSaleClient._request (client.py:110-172).                            *)
(***************************************************************************)
RECURSIVE Pow2(_)
Pow2(n) == IF n <= 0 THEN 1 ELSE 2 * Pow2(n - 1)

\* A backoff that does not grow: the delay without the factor 2 ** attempt.
BackoffDelayConstant(retry_delay, att) == retry_delay

\* client.py:172, the argument of asyncio.sleep
BackoffDelay(retry_delay, att) == retry_delay * Pow2(att)

\* A test for the last attempt that is met one attempt too late.
IsLastAttemptLate(att, max_retries) == att = max_retries + 1

\* client.py:166, `attempt == self.config.max_retries`
IsLastAttempt(att, max_retries) == att = max_retries

AttemptEvent(att) == [ev |-> "attempt", index |-> att, delay |-> 0]
SleepEvent(att, delay) == [ev |-> "sleep", index |-> att, delay |-> delay]

\* client.py:153, response_data.get("message", f"HTTP {response.status}")
ErrorMessage(response_data, status) ==
    IF response_data.message # <<>>
    THEN response_data.message
    ELSE <<"HTTP ", ToString(status)>>

\* client.py:152-163, once response.json() has given response_data
MapResponse(status, response_data) ==
    IF status >= 400
    THEN IF response_data.type # "object"
         THEN Raised(ForeignError("AttributeError", <<Str("AttributeError")>>))
         ELSE IF status = 401
              THEN Raised(AuthenticationError(ErrorMessage(response_data, status)))
              ELSE Raised(XRPLSaleError(ErrorMessage(response_data, status),
                                        status, response_data))
    ELSE Returned(response_data)

\* client.py:143-163, the body of the try statement for one attempt
TryBody(out) ==
    IF out.kind = "cancelled"
    THEN Raised(ForeignError("CancelledError", <<Str("CancelledError")>>))
    ELSE IF out.kind = "transport"
    THEN Raised(ForeignError(TransportException(out.cause),
                             <<Str(TransportException(out.cause))>>))
    ELSE LET parsed == ResponseJson(out.body)
         IN  IF parsed.ok
             THEN MapResponse(out.status, parsed.value)
             ELSE Raised(ForeignError(parsed.exc, <<Str(parsed.exc)>>))

\* An _ensure_session that opens a session on every call.
NeedsSessionAlways(sess) == TRUE

\* An _ensure_session that opens a session only when there is none.
NeedsSessionOnlyNone(sess) == sess = "none"

\* client.py:92, `self._session is None or self._session.closed`
NeedsSession(sess) == sess \in {"none", "closed"}

\* client.py:90-103.  No await inside: it runs without interleaving.
ensure_session ==
    IF NeedsSession(session)
    THEN /\ session_count < MaxSessions
         /\ session' = "open"
         /\ session_count' = session_count + 1
    ELSE UNCHANGED <<session, session_count>>

\* A close() without the test for a missing session.
CloseUnguarded(sess) ==
    IF sess = "none"
    THEN [session |-> sess, raised |-> "AttributeError"]
    ELSE [session |-> "closed", raised |-> "none"]

\* client.py:105-108: the state of the session after close() and what it raised.
CloseSession(sess) ==
    [session |-> IF sess = "open" THEN "closed" ELSE sess, raised |-> "none"]

NoOp == [name |-> "none", before |-> "none", raised |-> "none"]

\* client.py:134-143: the session is ensured, the URL built and the loop
\* entered; with max_retries + 1 <= 0 the range is empty and the function
\* returns None.
request_start(ep) ==
    /\ pc = "idle"
    /\ ensure_session
    /\ endpoint' = ep
    /\ url' = UrlJoin(base_url, ep)
    /\ IF config.max_retries + 1 <= 0
       THEN /\ pc' = "done"
            /\ result' = Returned(JNull)
            /\ trace' = <<>>
       ELSE /\ pc' = "attempt"
            /\ result' = Pending
            /\ trace' = <<AttemptEvent(0)>>
    /\ attempt' = 0
    /\ outcomes' = <<>>
    /\ op' = NoOp
    /\ UNCHANGED <<config, wcall, base_url, entered, conc_vars>>

\* client.py:143-172: the attempt in flight ends with outcome `out`.
request_attempt(out) ==
    /\ pc = "attempt"
    /\ outcomes' = Append(outcomes, out)
    /\ LET r == TryBody(out)
       IN  IF r.kind = "raise" /\ IsClientError(r.exc.class)
           THEN IF IsLastAttempt(attempt, config.max_retries)
                THEN /\ result' = Raised(XRPLSaleError(
                                     <<"Network error: ", Str(r.exc.class)>>,
                                     NoStatus, JNull))
                     /\ pc' = "done"
                     /\ trace' = trace
                ELSE /\ trace' = Append(trace,
                            SleepEvent(attempt, BackoffDelay(config.retry_delay, attempt)))
                     /\ pc' = "sleep"
                     /\ result' = result
           ELSE /\ result' = r
                /\ pc' = "done"
                /\ trace' = trace
    /\ UNCHANGED <<config, session, attempt, wcall, base_url, endpoint, url,
                   session_count, entered, op, conc_vars>>

\* client.py:172 and 138: asyncio.sleep returns and the loop takes its next value.
request_wake ==
    /\ pc = "sleep"
    /\ attempt' = attempt + 1
    /\ trace' = Append(trace, AttemptEvent(attempt + 1))
    /\ pc' = "attempt"
    /\ UNCHANGED <<config, session, outcomes, result, wcall, base_url, endpoint,
                   url, session_count, entered, op, conc_vars>>

\* The task that runs _request is cancelled.  While an attempt is in flight
\* (client.py:143-150) CancelledError is raised inside the try statement and
\* meets `except aiohttp.ClientError`; during the backoff (client.py:172) it is
\* raised by asyncio.sleep, inside the handler, and leaves the function.
request_cancel ==
    \/ request_attempt(Cancelled("in_flight"))
    \/ /\ pc = "sleep"
       /\ outcomes' = Append(outcomes, Cancelled("sleeping"))
       /\ result' = Raised(ForeignError("CancelledError", <<Str("CancelledError")>>))
       /\ pc' = "done"
       /\ UNCHANGED <<config, session, attempt, trace, wcall, base_url, endpoint,
                      url, session_count, entered, op, conc_vars>>

\* The caller takes the result; the client is ready for its next call.
request_end ==
    /\ pc = "done"
    /\ pc' = "idle"
    /\ attempt' = 0
    /\ trace' = <<>>
    /\ outcomes' = <<>>
    /\ result' = Pending
    /\ endpoint' = NoEndpoint
    /\ url' = NoUrl
    /\ UNCHANGED <<config, session, wcall, base_url, session_count, entered, op,
                   conc_vars>>

\* client.py:105-108, called between two requests
close ==
    /\ pc = "idle"
    /\ session' = CloseSession(session).session
    /\ op' = [name |-> "close", before |-> session,
              raised |-> CloseSession(session).raised]
    /\ UNCHANGED <<config, call_vars, wcall, base_url, session_count, entered,
                   conc_vars>>

\* client.py:81-84, `async with client:` is entered
aenter ==
    /\ pc = "idle"
    /\ ~entered
    /\ ensure_session
    /\ entered' = TRUE
    /\ op' = NoOp
    /\ UNCHANGED <<config, call_vars, wcall, base_url, conc_vars>>

\* client.py:86-88, the `async with` block is left: close() is called
aexit ==
    /\ pc = "idle"
    /\ entered
    /\ session' = CloseSession(session).session
    /\ entered' = FALSE
    /\ op' = [name |-> "__aexit__", before |-> session,
              raised |-> CloseSession(session).raised]
    /\ UNCHANGED <<config, call_vars, wcall, base_url, session_count, conc_vars>>

(***************************************************************************)
(* Several _request calls on one client, as tasks of one event loop, and   *)
(* close() among them.  A step runs from one await to the next.            *)
(***************************************************************************)
Calls == 1..NumCalls

Task(tpc, att, sess, res) == [pc |-> tpc, attempt |-> att, sess |-> sess, result |-> res]
IdleTask == Task("idle", 0, 0, Pending)

\* client.py:134-143: up to the first await, self._session.request(...); the
\* attempt is issued on the session self._session then refers to.
conc_request_start(t) ==
    /\ tasks[t].pc = "idle"
    /\ ensure_session
    /\ tasks' = [tasks EXCEPT ![t] =
                    IF config.max_retries + 1 <= 0
                    THEN Task("done", 0, 0, Returned(JNull))
                    ELSE Task("attempt", 0, session_count', Pending)]
    /\ UNCHANGED <<config, call_vars, wcall, base_url, entered, op, closing>>

\* client.py:143-172: the attempt of call t ends with outcome `out`.
conc_request_attempt(t, out) ==
    /\ tasks[t].pc = "attempt"
    /\ LET r == TryBody(out)
       IN  tasks' = [tasks EXCEPT ![t] =
               IF r.kind = "raise" /\ IsClientError(r.exc.class)
               THEN IF IsLastAttempt(tasks[t].attempt, config.max_retries)
                    THEN Task("done", tasks[t].attempt, 0,
                              Raised(XRPLSaleError(
                                  <<"Network error: ", Str(r.exc.class)>>,
                                  NoStatus, JNull)))
                    ELSE Task("sleep", tasks[t].attempt, 0, Pending)
               ELSE Task("done", tasks[t].attempt, 0, r)]
    /\ UNCHANGED <<config, session, call_vars, wcall, base_url, session_count,
                   entered, op, closing>>

\* client.py:172, 138, 143: the backoff ends and the next attempt is issued on
\* self._session; aiohttp raises RuntimeError("Session is closed") when that
\* session has been closed meanwhile.
conc_request_wake(t) ==
    /\ tasks[t].pc = "sleep"
    /\ tasks' = [tasks EXCEPT ![t] =
                    IF session = "open"
                    THEN Task("attempt", tasks[t].attempt + 1, session_count, Pending)
                    ELSE Task("done", tasks[t].attempt + 1, 0,
                              Raised(ForeignError("RuntimeError",
                                                  <<Str("RuntimeError")>>)))]
    /\ UNCHANGED <<config, session, call_vars, wcall, base_url, session_count,
                   entered, op, closing>>

\* The caller of call t takes the result.
conc_request_end(t) ==
    /\ tasks[t].pc = "done"
    /\ tasks' = [tasks EXCEPT ![t] = IdleTask]
    /\ UNCHANGED <<config, session, call_vars, wcall, base_url, session_count,
                   entered, op, closing>>

\* client.py:105-108, up to the await: the test, and the start of
\* ClientSession.close(), which marks the session closed at once.
conc_close_begin ==
    /\ CloseSession(session).session # session
    /\ session' = CloseSession(session).session
    /\ closing' = closing \cup {session_count}
    /\ UNCHANGED <<config, call_vars, wcall, base_url, session_count, entered,
                   op, tasks>>

\* client.py:108: `await self._session.close()` of session `id` returns.
conc_close_end ==
    \E id \in closing :
        /\ closing' = closing \ {id}
        /\ UNCHANGED <<config, session, call_vars, wcall, base_url, session_count,
                       entered, op, tasks>>

(***************************************************************************)
(* WebhooksService.verify_signature (webhooks.py:20-43).                   *)
(* A str is a sequence of code points, a bytes value a sequence of bytes.  *)
(***************************************************************************)
MaxSecretLen == 2    \* longest secret explored

\* The code points explored: 0 (NUL), 97 ("a") and the non-ASCII 233 (e-acute).
SecretAlphabet == {97, 0}

RECURSIVE Flatten(_)
Flatten(seqs) == IF seqs = <<>> THEN <<>> ELSE Head(seqs) \o Flatten(Tail(seqs))

\* str.encode('utf-8'), for code points below U+0800
Utf8Char(c) == IF c < 128 THEN <<c>> ELSE <<192 + (c \div 64), 128 + (c % 64)>>
Utf8Encode(str) == Flatten([i \in 1..Len(str) |-> Utf8Char(str[i])])

\* HMAC pads a key shorter than the hash's block with NUL bytes, so trailing
\* NUL bytes of the key do not change the MAC.
RECURSIVE StripNul(_)
StripNul(key) ==
    IF key # <<>> /\ key[Len(key)] = 0
    THEN StripNul(SubSeq(key, 1, Len(key) - 1))
    ELSE key

\* hmac.new(key, msg, hashlib.sha256).digest(): SHA-256 is taken to be free of
\* collisions, so the digest is an injective code of the padded key and msg.
HmacDigest(key, msg) ==
    LET padded == StripNul(key) IN <<Len(padded)>> \o padded \o msg

\* bytes.hex(): two lower-case hexadecimal digits for each byte
HexDigit(n) == IF n < 10 THEN 48 + n ELSE 87 + n
HexDigest(bytes) ==
    Flatten([i \in 1..Len(bytes) |-> <<HexDigit(bytes[i] \div 16), HexDigit(bytes[i] % 16)>>])

\* "sha256="
Sha256Prefix == <<115, 104, 97, 50, 53, 54, 61>>

PayloadBytes(payload) ==
    IF payload.kind = "str" THEN Utf8Encode(payload.data) ELSE payload.data

\* webhooks.py:31-40
ExpectedSignature(payload, secret_to_use) ==
    Sha256Prefix \o HexDigest(HmacDigest(Utf8Encode(secret_to_use), PayloadBytes(payload)))

IsAscii(str) == \A i \in 1..Len(str) : str[i] < 128

\* hmac.compare_digest on two str: a TypeError unless both are ASCII
CompareDigest(a, b) ==
    IF IsAscii(a) /\ IsAscii(b)
    THEN [kind |-> "return", value |-> (a = b), exc |-> NoException]
    ELSE [kind |-> "raise", value |-> FALSE,
          exc |-> ForeignError("TypeError",
                   <<"comparing strings with non-ASCII characters is not supported">>)]

\* The comparison of str.__eq__: unequal lengths are unequal at once, and the
\* scan stops at the first position that differs.
StrEq(a, b) ==
    IF Len(a) # Len(b) THEN [equal |-> FALSE, steps |-> 0]
    ELSE LET differ == {i \in 1..Len(b) : a[i] # b[i]}
         IN  IF differ = {} THEN [equal |-> TRUE, steps |-> Len(b)]
             ELSE [equal |-> FALSE,
                   steps |-> CHOOSE i \in differ : \A j \in differ : i <= j]

\* The comparison loop behind hmac.compare_digest(a, b) (CPython's _tscmp): it
\* runs over the length of b, against a when the lengths agree and against b
\* itself (with the verdict preset to unequal) when they do not, and never
\* stops early.  `steps` counts the characters compared.
RECURSIVE TsCmpLoop(_, _, _, _)
TsCmpLoop(left, right, i, differ) ==
    IF i > Len(right) THEN [equal |-> ~differ, steps |-> Len(right)]
    ELSE TsCmpLoop(left, right, i + 1, differ \/ left[i] # right[i])
TsCmp(a, b) ==
    IF Len(a) = Len(b) THEN TsCmpLoop(a, b, 1, FALSE) ELSE TsCmpLoop(b, b, 1, TRUE)

\* The characters hmac.compare_digest(a, b) compares: none when it raises.
CompareDigestSteps(a, b) ==
    IF IsAscii(a) /\ IsAscii(b) THEN TsCmp(a, b).steps ELSE 0

\* Python truth value of an Optional[str]
Falsy(opt) == opt = None \/ opt[1] = <<>>

\* `a or b` on Optional[str]
PyOr(a, b) == IF Falsy(a) THEN b ELSE a

\* webhooks.py:27
SecretToUse(secret, webhook_secret) == PyOr(secret, webhook_secret)

\* webhooks.py:20-43
VerifySignature(payload, signature, secret, webhook_secret) ==
    LET secret_to_use == SecretToUse(secret, webhook_secret)
    IN  IF Falsy(secret_to_use)
        THEN [kind |-> "raise", value |-> FALSE,
              exc |-> XRPLSaleError(
                        <<"Webhook secret is required for signature verification">>,
                        NoStatus, JNull)]
        ELSE CompareDigest(ExpectedSignature(payload, secret_to_use[1]), signature)

(***************************************************************************)
(* WebhooksService.parse_webhook (webhooks.py:45-54) and WebhookEvent      *)
(* (models.py:149-155).                                                    *)
(***************************************************************************)
\* models.py:35-45
WebhookEventType ==
    {"project.created", "project.updated", "project.launched", "project.completed",
     "investment.created", "investment.confirmed", "investment.failed",
     "tier.completed", "tokens.distributed"}

\* A member of a JSON object is absent, null, or a value of the type the field
\* of WebhookEvent declares; "type" holds an event name, known or not.
MemberValues == {"absent", "null", "valid"}
TypeValues == {"absent", "null", "project.created", "tokens.distributed", "order.created"}

\* The text of a payload: `json` tells what json.loads makes of it.
JsonText(json, id, type, data, timestamp, version) ==
    [json |-> json, id |-> id, type |-> type, data |-> data,
     timestamp |-> timestamp, version |-> version]

NotAnObject(json) == JsonText(json, "absent", "absent", "absent", "absent", "absent")

JsonTexts ==
    {NotAnObject(j) : j \in {"invalid", "array", "string", "null"}}
        \cup {JsonText("object", i, t, d, ts, v) :
                i \in MemberValues, t \in TypeValues, d \in MemberValues,
                ts \in MemberValues, v \in MemberValues}

\* A payload is a str, or bytes that are UTF-8 or not.
ParsePayloads ==
    {[kind |-> "str", utf8 |-> TRUE, text |-> t] : t \in JsonTexts}
        \cup {[kind |-> "bytes", utf8 |-> u, text |-> t] : u \in BOOLEAN, t \in JsonTexts}

\* pydantic's validation of WebhookEvent(**data): every field is required and
\* null is no str, enum member, dict or datetime.
FieldValid(value) == value \notin {"absent", "null"}
WebhookEventValid(data) ==
    /\ FieldValid(data.id)
    /\ data.type \in WebhookEventType
    /\ FieldValid(data.data)
    /\ FieldValid(data.timestamp)
    /\ FieldValid(data.version)

\* webhooks.py:48-52, the body of the try statement: the exception it raises,
\* "none" when it returns the event
ParseTryBody(payload) ==
    CASE payload.kind = "bytes" /\ ~payload.utf8 -> "UnicodeDecodeError"
      [] payload.text.json = "invalid" -> "JSONDecodeError"
      [] payload.text.json # "object" -> "TypeError"
      [] ~WebhookEventValid(payload.text) -> "pydantic.ValidationError"
      [] OTHER -> "none"

\* webhooks.py:45-54
ParseWebhook(payload) ==
    LET e == ParseTryBody(payload)
    IN  CASE e = "none" ->
                [kind |-> "return", event |-> payload.text, exc |-> NoException]
          [] e \in {"JSONDecodeError", "TypeError"} ->
                [kind |-> "raise", event |-> NotAnObject("null"),
                 exc |-> XRPLSaleError(<<"Invalid webhook payload: ", e>>, NoStatus, JNull)]
          [] OTHER ->
                [kind |-> "raise", event |-> NotAnObject("null"),
                 exc |-> ForeignError(e, <<e>>)]

(***************************************************************************)
(* The inputs explored for verify_signature.                               *)
(***************************************************************************)
RECURSIVE StringsUpTo(_, _)
StringsUpTo(alphabet, n) ==
    IF n = 0 THEN {<<>>}
    ELSE LET shorter == StringsUpTo(alphabet, n - 1)
         IN  shorter \cup {Append(str, c) : str \in shorter, c \in alphabet}

Secrets == StringsUpTo(SecretAlphabet, MaxSecretLen)
OptionalSecrets == {None} \cup {Some(str) : str \in Secrets}

VerifyPayloads ==
    {[kind |-> "str", data |-> <<>>], [kind |-> "str", data |-> <<233>>],
     [kind |-> "bytes", data |-> <<97>>]}

\* The signatures a sender can supply: the right one for some secret, that one
\* cut short or with a character more, and strings that are no signature.
Signatures ==
    LET right == {ExpectedSignature(p, str) : p \in VerifyPayloads, str \in Secrets}
    IN  right
          \cup {SubSeq(sig, 1, Len(sig) - 1) : sig \in right}
          \cup {Append(sig, 233) : sig \in right}
          \cup {<<>>, Sha256Prefix, <<233>>}

\* The caller takes what the webhook operation gave.
webhook_end ==
    /\ wcall # NoCall
    /\ wcall' = NoCall
    /\ UNCHANGED <<config, session, call_vars, base_url, session_count,
                   entered, op, conc_vars>>

WebhookConfigs ==
    {XRPLSaleConfig(DefaultMaxRetries, DefaultRetryDelay, ws) : ws \in OptionalSecrets}

\* A verify_signature that keeps the secret it was passed for later calls.
verify_call_remembering(payload, signature, secret) ==
    /\ wcall = NoCall
    /\ wcall' = [op |-> "verify_signature", payload |-> payload,
                 signature |-> signature, secret |-> secret,
                 result |-> VerifySignature(payload, signature, secret,
                                            config.webhook_secret)]
    /\ config' = [config EXCEPT !.webhook_secret = SecretToUse(secret, @)]
    /\ UNCHANGED <<session, call_vars, base_url, session_count, entered, op,
                   conc_vars>>

\* webhooks.py:20-43: one call of verify_signature; it assigns to no attribute.
verify_call(payload, signature, secret) ==
    /\ wcall = NoCall
    /\ wcall' = [op |-> "verify_signature", payload |-> payload,
                 signature |-> signature, secret |-> secret,
                 result |-> VerifySignature(payload, signature, secret,
                                            config.webhook_secret)]
    /\ UNCHANGED <<config, session, call_vars, base_url, session_count,
                   entered, op, conc_vars>>

\* webhooks.py:45-54: one call of parse_webhook; it assigns to no attribute.
parse_call(payload) ==
    /\ wcall = NoCall
    /\ wcall' = [op |-> "parse_webhook", payload |-> payload,
                 result |-> ParseWebhook(payload)]
    /\ UNCHANGED <<config, session, call_vars, base_url, session_count,
                   entered, op, conc_vars>>

\* A caller invokes webhooks.verify_signature(payload, signature, secret).
verify_signature ==
    \E payload \in VerifyPayloads, signature \in Signatures, secret \in OptionalSecrets :
        verify_call(payload, signature, secret)

\* A caller invokes webhooks.parse_webhook(payload).
parse_webhook ==
    \E payload \in ParsePayloads :
        parse_call(payload)

(***************************************************************************)
(* The framework adapters (webhooks.py:56-147): one HTTP request with its  *)
(* body and signature header, and the response the framework sends.        *)
(***************************************************************************)
Frameworks == {"fastapi", "flask", "django"}

\* What the adapter made of a request: the status of the response, whether
\* parse_webhook ran and whether the event reached the user's handler.
AdapterResponse(status, parsed, handled) ==
    [status |-> status, parsed |-> parsed, handled |-> handled]

\* HTTPException(401) / abort(401) / HttpResponseForbidden
Rejection(framework) ==
    AdapterResponse(IF framework = "django" THEN 403 ELSE 401, FALSE, FALSE)

\* `except XRPLSaleError` answers 400; any other exception leaves the adapter
\* and the framework answers 500.
AfterException(exc, parsed) ==
    AdapterResponse(IF IsSDKError(exc) THEN 400 ELSE 500, parsed, FALSE)

\* webhooks.py:74-75, 102-103, 137-141: parse_webhook, then the handler
ParseAndHandle(body) ==
    LET parsed == ParseWebhook(body)
    IN  IF parsed.kind = "raise"
        THEN AfterException(parsed.exc, TRUE)
        ELSE AdapterResponse(200, TRUE, TRUE)

\* webhooks.py:63-79, 91-108, 128-144: the three adapters have the same
\* structure and differ in the rejection they send.
Adapter(framework, verify, header, body, secret, webhook_secret) ==
    IF ~verify
    THEN ParseAndHandle(body)
    ELSE IF Falsy(header)
         THEN Rejection(framework)
         ELSE LET verdict == VerifySignature(body, header[1], secret, webhook_secret)
              IN  IF verdict.kind = "raise"
                  THEN AfterException(verdict.exc, FALSE)
                  ELSE IF ~verdict.value
                       THEN Rejection(framework)
                       ELSE ParseAndHandle(body)

\* Request bodies (bytes): a well-formed event, an event without `type`, text
\* that is not JSON, and bytes that are not UTF-8.
AdapterBodies ==
    {[kind |-> "bytes", data |-> <<97>>, utf8 |-> TRUE,
      text |-> JsonText("object", "valid", "project.created", "valid", "valid", "valid")],
     [kind |-> "bytes", data |-> <<97, 0>>, utf8 |-> TRUE,
      text |-> JsonText("object", "valid", "absent", "valid", "valid", "valid")],
     [kind |-> "bytes", data |-> <<97, 97>>, utf8 |-> TRUE,
      text |-> NotAnObject("invalid")],
     [kind |-> "bytes", data |-> <<233>>, utf8 |-> FALSE,
      text |-> NotAnObject("invalid")]}

AdapterSecrets == {None, Some(<<97>>)}

\* The signature header of a request for `body`: absent, empty, the right
\* signature under the secret "a", that of another secret, a bare prefix, and
\* a header with a byte that is not ASCII.
AdapterHeaders(body) ==
    {None, Some(<<>>), Some(ExpectedSignature(body, <<97>>)),
     Some(ExpectedSignature(body, <<97, 97>>)), Some(Sha256Prefix), Some(<<233>>)}

AdapterConfigs ==
    {XRPLSaleConfig(DefaultMaxRetries, DefaultRetryDelay, ws) : ws \in AdapterSecrets}

\* A request reaches the handler that fastapi_dependency, flask_decorator or
\* django_view built for `framework`.
adapter_request(framework) ==
    \E verify \in BOOLEAN, body \in AdapterBodies, secret \in AdapterSecrets :
        \E header \in AdapterHeaders(body) :
            /\ wcall = NoCall
            /\ wcall' = [op |-> "adapter", framework |-> framework, verify |-> verify,
                         header |-> header, payload |-> body, secret |-> secret,
                         result |-> Adapter(framework, verify, header, body, secret,
                                            config.webhook_secret)]
            /\ UNCHANGED <<config, session, call_vars, base_url, session_count,
                           entered, op, conc_vars>>

Outcomes ==
    {Failure(c) : c \in TransportFailures}
        \cup {Response(s, b) : s \in Statuses, b \in Bodies}

\* client.py:46-70: the state after construction
InitClient(cfg, environment) ==
    /\ config = cfg
    /\ base_url = GetBaseUrl(environment)
    /\ session = "none"
    /\ session_count = 0
    /\ entered = FALSE
    /\ op = NoOp
    /\ pc = "idle"
    /\ attempt = 0
    /\ trace = <<>>
    /\ outcomes = <<>>
    /\ result = Pending
    /\ endpoint = NoEndpoint
    /\ url = NoUrl
    /\ tasks = [t \in Calls |-> IdleTask]
    /\ closing = {}
    /\ wcall = NoCall

\* One caller that awaits each call before the next.
Init ==
    \E cfg \in RequestConfigs : InitClient(cfg, DefaultEnvironment)

Next ==
    \/ \E ep \in Endpoints : request_start(ep)
    \/ \E out \in Outcomes : request_attempt(out)
    \/ request_wake
    \/ request_cancel
    \/ request_end
    \/ close

Spec == Init /\ [][Next]_vars

\* The webhook operations of a client built with a webhook secret or none.
InitWebhook ==
    \E cfg \in WebhookConfigs : InitClient(cfg, DefaultEnvironment)

NextWebhook ==
    \/ verify_signature
    \/ parse_webhook
    \/ webhook_end

SpecWebhook == InitWebhook /\ [][NextWebhook]_vars

\* Requests that reach the framework adapters of a client's webhook service.
InitAdapter ==
    \E cfg \in AdapterConfigs : InitClient(cfg, DefaultEnvironment)

NextAdapter ==
    \/ \E framework \in Frameworks : adapter_request(framework)
    \/ webhook_end

SpecAdapter == InitAdapter /\ [][NextAdapter]_vars

\* Webhook operations among requests and close() calls of the same client.
PureConfigs ==
    {XRPLSaleConfig(1, DefaultRetryDelay, ws) : ws \in AdapterSecrets}

PurePayloads == {[kind |-> "str", data |-> <<>>], [kind |-> "bytes", data |-> <<97>>]}

PureSignatures ==
    {ExpectedSignature(payload, <<97>>) : payload \in PurePayloads}
        \cup {<<>>, <<233>>}

PureParsePayloads ==
    {[kind |-> "str", utf8 |-> TRUE, text |-> t] :
        t \in {NotAnObject("invalid"),
               JsonText("object", "valid", "absent", "valid", "valid", "valid"),
               JsonText("object", "valid", "project.created", "valid", "valid", "valid")}}

PureOutcomes == {Failure("connection_refused"), Response(200, "object_other")}

InitPure ==
    \E cfg \in PureConfigs : InitClient(cfg, DefaultEnvironment)

NextPure ==
    \/ \E payload \in PurePayloads, signature \in PureSignatures,
          secret \in AdapterSecrets : verify_call(payload, signature, secret)
    \/ \E payload \in PureParsePayloads : parse_call(payload)
    \/ webhook_end
    \/ request_start(Reference(TRUE, <<"ping">>))
    \/ \E out \in PureOutcomes : request_attempt(out)
    \/ request_wake
    \/ request_end
    \/ close

SpecPure == InitPure /\ [][NextPure]_vars

\* One call after another, every attempt and every backoff sleep of which
\* finishes: the event loop resumes a coroutine whose await has completed.
TerminationOutcomes ==
    {Failure("connection_refused"), Failure("timeout"),
     Response(200, "object_other"), Response(200, "wrong_content_type"),
     Response(500, "object_message")}

NextTermination ==
    \/ request_start(Reference(TRUE, <<"ping">>))
    \/ \E out \in TerminationOutcomes : request_attempt(out)
    \/ request_wake
    \/ request_cancel
    \/ request_end

SpecTermination ==
    /\ Init
    /\ [][NextTermination]_vars
    /\ WF_vars(\E out \in TerminationOutcomes : request_attempt(out))
    /\ WF_vars(request_wake)

\* The life of the session of a client of either environment: requests,
\* close() and the `async with` block, one operation at a time.
LifecycleConfigs ==
    {XRPLSaleConfig(n, DefaultRetryDelay, None) : n \in 0..1}

LifecycleOutcomes ==
    {Failure("connection_refused"), Response(200, "object_other"),
     Response(404, "object_message")}

InitLifecycle ==
    \E cfg \in LifecycleConfigs, environment \in Environment :
        InitClient(cfg, environment)

NextLifecycle ==
    \/ \E ep \in Endpoints : request_start(ep)
    \/ \E out \in LifecycleOutcomes : request_attempt(out)
    \/ request_wake
    \/ request_end
    \/ close
    \/ aenter
    \/ aexit

SpecLifecycle == InitLifecycle /\ [][NextLifecycle]_vars

\* Concurrent calls and close() on one client.
ConcOutcomes ==
    {Failure("connection_refused"), Response(200, "object_other")}

InitConc ==
    \E cfg \in LifecycleConfigs : InitClient(cfg, DefaultEnvironment)

NextConc ==
    \/ \E t \in Calls : conc_request_start(t)
    \/ \E t \in Calls, out \in ConcOutcomes : conc_request_attempt(t, out)
    \/ \E t \in Calls : conc_request_wake(t)
    \/ \E t \in Calls : conc_request_end(t)
    \/ conc_close_begin
    \/ conc_close_end

SpecConc == InitConc /\ [][NextConc]_vars

(***************************************************************************)
(* Properties of _request, checked under Spec.                             *)
(***************************************************************************)
IsErrorResponse(out) == out.kind = "response" /\ out.status >= 400

\* The attempts and sleeps of a call that made n + 1 attempts: attempt k and
\* then, for k < n, a sleep of retry_delay * 2^k.
ExpectedTrace(n, retry_delay) ==
    [j \in 1..(2 * n + 1) |->
        IF j % 2 = 1
        THEN AttemptEvent((j - 1) \div 2)
        ELSE SleepEvent((j - 2) \div 2, retry_delay * Pow2((j - 2) \div 2))]

\* C1: with max_retries = N >= 0, a call whose every attempt failed at
\* transport level made exactly N+1 attempts and slept exactly N times, the
\* k-th sleep lasting retry_delay * 2^k between attempt k and attempt k+1,
\* with no sleep after the last attempt.
C1_PersistentFailure ==
    (/\ pc = "done"
     /\ config.max_retries >= 0
     /\ outcomes # <<>>
     /\ \A i \in 1..Len(outcomes) : outcomes[i].kind = "transport")
        => trace = ExpectedTrace(config.max_retries, config.retry_delay)

\* C2: an attempt that received a response with status >= 400 is the call's
\* last: the call has failed, with no sleep and no attempt after it.
C2_ErrorStatusNeverRetried ==
    \A i \in 1..Len(outcomes) :
        IsErrorResponse(outcomes[i])
            => /\ i = Len(outcomes)
               /\ pc = "done"
               /\ result.kind = "raise"
               /\ Len(trace) = 2 * i - 1

\* C3: a response with status 401 makes the call fail with
\* AuthenticationError, whatever its body.
C3_Status401IsAuthenticationError ==
    \A i \in 1..Len(outcomes) :
        (outcomes[i].kind = "response" /\ outcomes[i].status = 401)
            => /\ i = Len(outcomes)
               /\ pc = "done"
               /\ result.kind = "raise"
               /\ result.exc.class = "AuthenticationError"

\* The bodies that are not valid JSON.
NotValidJson(body) == body \in {"empty", "malformed", "wrong_content_type"}

\* C8: an attempt whose response body is not valid JSON (no body, wrong
\* content type, malformed text) is the call's last, and the call has failed.
C8_InvalidJsonNeverRetried ==
    \A i \in 1..Len(outcomes) :
        (outcomes[i].kind = "response" /\ NotValidJson(outcomes[i].body))
            => /\ i = Len(outcomes)
               /\ pc = "done"
               /\ result.kind = "raise"
               /\ Len(trace) = 2 * i - 1

\* C9: every transport-level failure is handled alike: before the last allowed
\* attempt the call sleeps retry_delay * 2^attempt and retries; on the last
\* allowed attempt it fails with the generic SDK error, without a status code,
\* whose message carries the description of the cause.
C9_TransportFailuresAlike ==
    \A i \in 1..Len(outcomes) :
        outcomes[i].kind = "transport"
            => IF i - 1 < config.max_retries
               THEN /\ Len(trace) >= 2 * i
                    /\ trace[2 * i] =
                          SleepEvent(i - 1, config.retry_delay * Pow2(i - 1))
                    /\ \/ pc = "sleep" /\ Len(trace) = 2 * i
                       \/ Len(trace) > 2 * i /\ trace[2 * i + 1] = AttemptEvent(i)
               ELSE /\ pc = "done"
                    /\ result.kind = "raise"
                    /\ result.exc.class = "XRPLSaleError"
                    /\ result.exc.status_code = NoStatus
                    /\ result.exc.message =
                          <<"Network error: ",
                            Str(TransportException(outcomes[i].cause))>>

\* The subkind of an SDK error, by its status code (spec, ApiError).
ErrorKind(status_code) ==
    CASE status_code = 400 -> "Validation"
      [] status_code = 401 -> "Authentication"
      [] status_code = 403 -> "Authorization"
      [] status_code = 404 -> "NotFound"
      [] status_code = 429 -> "RateLimit"
      [] status_code = 500 -> "Server"
      [] OTHER -> "generic"

\* C10: a response with status >= 400 makes the call fail at once with the SDK
\* error whose subkind its status selects; status 404 with the body
\* {"message": "Project not found"} gives the NotFound kind with that message.
C10_StatusSelectsErrorKind ==
    \A i \in 1..Len(outcomes) :
        IsErrorResponse(outcomes[i])
            => /\ i = Len(outcomes)
               /\ pc = "done"
               /\ result.kind = "raise"
               /\ IsSDKError(result.exc)
               /\ ErrorKind(result.exc.status_code) = ErrorKind(outcomes[i].status)
               /\ outcomes[i] = Response(404, "object_message")
                     => /\ Len(trace) = 2 * i - 1
                        /\ result.exc.message = <<"Project not found">>

\* C11: a response with status >= 400 other than 401 makes the call raise the
\* generic SDK error whose status_code is the response's status, whose details
\* are the parsed body, and whose message is the body's "message" member when
\* it has one and "HTTP {status}" when it has none.
C11_GenericErrorFields ==
    \A i \in 1..Len(outcomes) :
        (IsErrorResponse(outcomes[i]) /\ outcomes[i].status # 401)
            => /\ i = Len(outcomes)
               /\ pc = "done"
               /\ result.kind = "raise"
               /\ result.exc.class = "XRPLSaleError"
               /\ result.exc.status_code = outcomes[i].status
               /\ result.exc.message =
                     IF outcomes[i].body = "object_message"
                     THEN <<"Project not found">>
                     ELSE <<"HTTP ", ToString(outcomes[i].status)>>
               /\ outcomes[i].body = "object_message"
                     => result.exc.details = JObject(<<"Project not found">>, {})
               /\ outcomes[i].body = "object_other"
                     => result.exc.details = JObject(<<>>, {"ok"})

\* The call met k transport failures and then a response with a status below
\* 400 whose body parsed.
FailedThenAnswered(k) ==
    /\ config.max_retries >= 0
    /\ Len(outcomes) = k + 1
    /\ \A i \in 1..k : outcomes[i].kind = "transport"
    /\ outcomes[k + 1].kind = "response"
    /\ outcomes[k + 1].status < 400
    /\ ResponseJson(outcomes[k + 1].body).ok

\* C12: when the first k attempts (0 <= k <= max_retries) fail at transport
\* level and attempt k+1 receives a response with status < 400 and parsed body
\* B, the call returns B unchanged after exactly k+1 attempts and k sleeps of
\* retry_delay * 2^i, i = 0..k-1.
C12_RetryThenSuccess ==
    \A k \in 0..(Len(outcomes) - 1) :
        FailedThenAnswered(k)
            => /\ k <= config.max_retries
               /\ pc = "done"
               /\ result = Returned(ResponseJson(outcomes[k + 1].body).value)
               /\ trace = ExpectedTrace(k, config.retry_delay)

\* Two refused connections, then 200 {"ok": true}, with max_retries = 2 and
\* retry_delay = 1: three attempts, sleeps of 1 and 2.
C12_Witness ==
    /\ config.max_retries = 2
    /\ config.retry_delay = 1
    /\ FailedThenAnswered(2)
    /\ outcomes[3] = Response(200, "object_other")
    /\ result = Returned(JObject(<<>>, {"ok"}))
    /\ Len(trace) = 5
    /\ trace[2].delay = 1
    /\ trace[4].delay = 2

\* C18: a call that was cancelled, while an attempt was in flight or during a
\* backoff sleep, made no further attempt and slept no more, and handed its
\* caller CancelledError itself: not the SDK error that wraps an exhausted
\* network failure, and no SDK error at all.
C18_CancellationPropagates ==
    \A i \in 1..Len(outcomes) :
        outcomes[i].kind = "cancelled"
            => /\ i = Len(outcomes)
               /\ pc = "done"
               /\ result.kind = "raise"
               /\ result.exc.class = "CancelledError"
               /\ ~IsSDKError(result.exc)
               /\ Len(trace) = IF outcomes[i].cause = "in_flight"
                               THEN 2 * i - 1 ELSE 2 * (i - 1)
               /\ trace[Len(trace)].ev = IF outcomes[i].cause = "in_flight"
                                         THEN "attempt" ELSE "sleep"

\* An attempt failed, the call slept, and its second attempt was cancelled in
\* flight with a retry still allowed.
C18_Witness ==
    /\ config.max_retries = 2
    /\ Len(outcomes) = 2
    /\ outcomes[1] = Failure("connection_refused")
    /\ outcomes[2] = Cancelled("in_flight")
    /\ pc = "done"
    /\ result.exc.class = "CancelledError"

\* C20: every constructed client has a config with max_retries >= 0 and
\* retry_delay > 0 (a config outside these ranges is rejected at construction).
C20_ConfigInRange ==
    /\ config.max_retries >= 0
    /\ config.retry_delay > 0

\* C21: within one call the backoff delay strictly increases from each retry
\* to the next: a later sleep is strictly longer than an earlier one.
C21_BackoffStrictlyIncreases ==
    \A j, k \in 1..Len(trace) :
        (j < k /\ trace[j].ev = "sleep" /\ trace[k].ev = "sleep")
            => trace[j].delay < trace[k].delay

\* C22: the error raised for a response with status >= 400 (401 included)
\* whose body is a JSON object has a message, the status code of the response
\* and the parsed body as its details.
C22_ErrorCarriesStatusAndBody ==
    \A i \in 1..Len(outcomes) :
        (/\ IsErrorResponse(outcomes[i])
         /\ ResponseJson(outcomes[i].body).ok
         /\ ResponseJson(outcomes[i].body).value.type = "object")
            => /\ pc = "done"
               /\ result.kind = "raise"
               /\ result.exc.message # <<>>
               /\ result.exc.status_code = outcomes[i].status
               /\ result.exc.details = ResponseJson(outcomes[i].body).value

\* C25: at most one attempt of the call is in flight, and attempt n + 1 was
\* started only after attempt n had ended in a transport failure and the sleep
\* of retry_delay * 2^n that followed it had ended.
C25_AttemptsSequential ==
    /\ Cardinality({j \in 1..Len(trace) : trace[j].ev = "attempt"})
          <= Cardinality({i \in 1..Len(outcomes) : outcomes[i].cause # "sleeping"}) + 1
    /\ \A j \in 1..Len(trace) :
          (trace[j].ev = "attempt" /\ trace[j].index >= 1)
              => /\ j >= 3
                 /\ trace[j - 2] = AttemptEvent(trace[j].index - 1)
                 /\ trace[j - 1] = SleepEvent(trace[j].index - 1,
                        config.retry_delay * Pow2(trace[j].index - 1))
                 /\ Len(outcomes) >= trace[j].index
                 /\ outcomes[trace[j].index].kind = "transport"

\* C27: a call that returned a value had, as its last attempt, a response with
\* status < 400, and the value is the parsed body of that response; a call
\* that ended otherwise raised.
C27_ReturnOnlyAfterSuccess ==
    pc = "done"
        => /\ result.kind \in {"return", "raise"}
           /\ result.kind = "return"
                => /\ outcomes # <<>>
                   /\ outcomes[Len(outcomes)].kind = "response"
                   /\ outcomes[Len(outcomes)].status < 400
                   /\ ResponseJson(outcomes[Len(outcomes)].body).ok
                   /\ result.value = ResponseJson(outcomes[Len(outcomes)].body).value

(***************************************************************************)
(* Termination of _request, checked under SpecTermination.                 *)
(***************************************************************************)
NumAttempts == Cardinality({j \in 1..Len(trace) : trace[j].ev = "attempt"})
NumSleeps == Cardinality({j \in 1..Len(trace) : trace[j].ev = "sleep"})
AtLeastZero(n) == IF n < 0 THEN 0 ELSE n

C13_UrlIsBasePlusPath ==
    pc # "idle"
        => /\ base_url \in {Url("https://xrpl.sale", <<"api">>),
                            Url("https://testnet.xrpl.sale", <<"api">>)}
           /\ url = Url(base_url.origin, base_url.path \o endpoint.path)

\* C16: construction creates no session; a _request call or __aenter__ creates
\* one exactly when there is none or the existing one is closed, and nothing
\* else creates one; a running call has an open session; __aexit__ leaves the
\* session closed.
C16_LazySession ==
    /\ (session = "none" /\ session_count = 0)
    /\ [][/\ ((pc = "idle" /\ pc' # "idle") \/ (~entered /\ entered'))
                => IF session \in {"none", "closed"}
                   THEN session' = "open" /\ session_count' = session_count + 1
                   ELSE UNCHANGED <<session, session_count>>
          /\ session_count' # session_count
                => ((pc = "idle" /\ pc' # "idle") \/ (~entered /\ entered'))
          /\ pc' \in {"attempt", "sleep"} => session' = "open"
          /\ (entered /\ ~entered') => session' = "closed"]_vars

\* A request runs on the second session of a client whose first was closed.
C16_Witness ==
    /\ session_count = 2
    /\ session = "open"
    /\ pc = "attempt"
    /\ ~entered

\* C17: close() raises nothing in any state; on a client whose session was
\* never opened it changes nothing; after an earlier close it leaves the
\* session closed as it was; and it never leaves an open session.
C17_CloseIdempotent ==
    op.name = "close"
        => /\ op.raised = "none"
           /\ op.before = "none" => (session = "none" /\ session_count = 0)
           /\ op.before = "closed" => session = "closed"
           /\ session # "open"

\* close() was called on a session that an earlier close() had closed.
C17_Witness ==
    /\ op.name = "close"
    /\ op.before = "closed"
    /\ session = "closed"
    /\ ~entered

(***************************************************************************)
(* Properties of concurrent calls, checked under SpecConc.                 *)
(***************************************************************************)
\* C14: no attempt is in flight on a session whose close() is in progress.
C14_NoAttemptDuringClose ==
    \A t \in Calls :
        tasks[t].pc = "attempt" => tasks[t].sess \notin closing

\* C15: a session is created only when the client has no open one, one at a
\* time; every attempt is issued on the session the client then holds, which
\* is open; so while the first session has not been closed every attempt in
\* flight, of any call, is on that session.
C15_OneSessionWhileOpen ==
    /\ []((session = "open" /\ session_count = 1)
            => \A t \in Calls : tasks[t].pc = "attempt" => tasks[t].sess = 1)
    /\ [][/\ session_count' # session_count
                => /\ session # "open"
                   /\ session' = "open"
                   /\ session_count' = session_count + 1
          /\ \A t \in Calls :
                (tasks[t].pc # "attempt" /\ tasks'[t].pc = "attempt")
                    => /\ session' = "open"
                       /\ tasks'[t].sess = session_count']_vars

\* Every call started on the client without a session, and all their first
\* attempts are in flight on the one session created.
C15_Witness ==
    /\ session_count = 1
    /\ session = "open"
    /\ \A t \in Calls : tasks[t].pc = "attempt" /\ tasks[t].sess = 1

(***************************************************************************)
(* Properties of the webhook operations, checked under SpecWebhook.        *)
(***************************************************************************)
Verified == wcall.op = "verify_signature"
Parsed == wcall.op = "parse_webhook"

\* The payloads parse_webhook is to reject: text that is not JSON, and a JSON
\* object with a member missing, of the wrong type, or an unknown event name.
Decodes(payload) == payload.kind = "str" \/ payload.utf8
BadPayload(payload) ==
    /\ Decodes(payload)
    /\ \/ payload.text.json = "invalid"
       \/ payload.text.json = "object" /\ ~WebhookEventValid(payload.text)

\* C4: parse_webhook fails with the SDK's error, and no other kind of
\* exception, for every payload that is not JSON or not a well-formed event.
C4_BadPayloadIsSDKError ==
    (Parsed /\ BadPayload(wcall.payload))
        => wcall.result.kind = "raise" /\ IsSDKError(wcall.result.exc)

\* A secret is available to the call: the explicit or the configured one.
SecretAvailable == ~Falsy(SecretToUse(wcall.secret, config.webhook_secret))

\* C5: with a secret available verify_signature returns a boolean for every
\* payload and every signature string; it raises only when no secret is
\* available.
C5_VerifyReturnsBoolean ==
    Verified => (wcall.result.kind = "return" <=> SecretAvailable)

\* C6: called with the explicit secret S', verify_signature accepts the
\* signature "sha256=" + hex(HMAC-SHA256(S, P)) of the payload P when S' = S,
\* and turns it down when S' differs from S.
C6_SignatureRoundTrip ==
    (Verified /\ wcall.secret # None)
        => \A signed_with \in Secrets :
              wcall.signature = ExpectedSignature(wcall.payload, signed_with)
                 => /\ wcall.result.kind = "return"
                    /\ wcall.result.value = (wcall.secret[1] = signed_with)

\* C7: the HMAC is keyed with the explicit secret whenever one is passed, the
\* empty string included, with the configured secret when none is passed, and
\* with neither present the call fails with a configuration error.  (A
\* configured secret that is empty counts as not present.)
C7_ExplicitSecretOverrides ==
    Verified
        => IF wcall.secret # None
           THEN wcall.result = CompareDigest(
                    ExpectedSignature(wcall.payload, wcall.secret[1]), wcall.signature)
           ELSE IF ~Falsy(config.webhook_secret)
           THEN wcall.result = CompareDigest(
                    ExpectedSignature(wcall.payload, config.webhook_secret[1]),
                    wcall.signature)
           ELSE wcall.result.kind = "raise" /\ IsSDKError(wcall.result.exc)

\* The error verify_signature raises when neither the call nor the config
\* gives a secret (webhooks.py:27-29).
MisconfigurationError ==
    VerifySignature([kind |-> "str", data |-> <<>>], <<>>, None, None).exc

\* C19: the error parse_webhook raises for a bad payload is of another kind
\* than the error verify_signature raises when no secret is available.
C19_DistinctErrorKinds ==
    (Parsed /\ BadPayload(wcall.payload) /\ wcall.result.kind = "raise")
        => wcall.result.exc.class # MisconfigurationError.class

\* The signature verify_signature computed in the call recorded in wcall.
ExpectedOfCall ==
    ExpectedSignature(wcall.payload,
                      SecretToUse(wcall.secret, config.webhook_secret)[1])

\* The string `str` with its i-th character replaced by another ASCII one.
MismatchAt(str, i) == [str EXCEPT ![i] = IF str[i] = 97 THEN 98 ELSE 97]

Adapted == wcall.op = "adapter"

\* The request carries a signature header, a secret is available and the
\* header is not the signature of the body under that secret.
InvalidSignature ==
    /\ ~Falsy(wcall.header)
    /\ SecretAvailable
    /\ wcall.header[1] # ExpectedOfCall

\* C26: with verification enabled, the payload was parsed or the handler
\* called only for a request with a signature header for which
\* verify_signature returned true; a request whose header is missing or
\* invalid was answered 401 or 403, unparsed and unhandled.
C26_VerifyBeforeParse ==
    (Adapted /\ wcall.verify)
        => /\ (wcall.result.parsed \/ wcall.result.handled)
                => /\ ~Falsy(wcall.header)
                   /\ VerifySignature(wcall.payload, wcall.header[1], wcall.secret,
                                      config.webhook_secret).kind = "return"
                   /\ VerifySignature(wcall.payload, wcall.header[1], wcall.secret,
                                      config.webhook_secret).value
           /\ (Falsy(wcall.header) \/ InvalidSignature)
                => /\ wcall.result.status \in {401, 403}
                   /\ ~wcall.result.parsed
                   /\ ~wcall.result.handled

(***************************************************************************)
(* Properties of the webhook operations among other calls, checked under   *)
(* SpecPure.                                                               *)
(***************************************************************************)
\* C24: what verify_signature and parse_webhook give is a function of their
\* inputs and the configured secret; no operation changes the config, and a
\* webhook operation, returning or raising, changes neither the config nor
\* the session nor anything else of the client.
C24_WebhookOpsPure ==
    /\ [](Verified => wcall.result = VerifySignature(wcall.payload, wcall.signature,
                                          wcall.secret, config.webhook_secret))
    /\ [](Parsed => wcall.result = ParseWebhook(wcall.payload))
    /\ [][config' = config]_vars
    /\ [][wcall' # wcall
            => UNCHANGED <<config, session, session_count, base_url, call_vars,
                           entered, op, conc_vars>>]_vars

\* verify_signature was called with an explicit secret on a client that had
\* made a request and been closed, and raised; the config holds no secret.
C24_Witness ==
    /\ Verified
    /\ wcall.secret = Some(<<97>>)
    /\ wcall.result.kind = "raise"
    /\ config.webhook_secret = None
    /\ session = "closed"
    /\ session_count = 2

====
